---------------------------- MODULE Spec2Model ----------------------------
(***************************************************************************)
(* A model of doc2tex: the escape codec (utils.py), the LaTeX generator's  *)
(* paragraph, heading and table emission (latex.py), the DOCX generator's  *)
(* markup parser (docx.py) and the converter with its batch driver         *)
(* (converter.py).                                                         *)
(*                                                                         *)
(* Python strings are modelled as TLA+ strings; positions are 1-based, so  *)
(* Python's s[i:j] is SubSeq(s, i+1, j).                                   *)
(***************************************************************************)
EXTENDS Integers, Sequences, FiniteSets, TLC

VARIABLES
    pc,          \* position of the component under study
    text,        \* escape codec: the input string
    escaped,     \* escape codec: escape_latex(text)
    unescaped,   \* escape codec: the result of unescape_latex
    paragraph,   \* LatexGenerator: the Word paragraph being converted
    table,       \* LatexGenerator: the Word table being converted
    block,       \* DocxGenerator: the markup block being processed
    calls,       \* DocxGenerator: the handlers _process_block has called
    doc,         \* DocxGenerator: self.doc, the elements added so far
    pos,         \* _parse_inline_formatting: pos
    next_match,  \* _parse_inline_formatting: next_match with next_type
    content,     \* _parse_latex: the parameter content, as passed in
    body,        \* _parse_latex: content after the envelope strip
    blocks,      \* _parse_latex: the blocks not yet processed
    input_files, \* batch_convert: the parameter input_files
    output_dir,  \* batch_convert: the parameter output_dir
    direction,   \* batch_convert: the parameter direction
    index,       \* batch_convert: the position of the for loop
    results,     \* batch_convert: results
    failed,      \* batch_convert: the positions whose try body raised
    disk,        \* the file system: the state of each input file
    outputs,     \* the file system: the paths the conversions created
    temp_dirs,   \* the file system: the temp directories that exist
    in_path,     \* convert: the parameter input_path
    out_path,    \* convert: the parameter output_path
    file_state,  \* the file system: the state of the file at input_path
    fault,       \* the statement of the generator an unreadable input fails
    call_result  \* convert: the value returned or the exception raised

codecVars == <<text, escaped, unescaped>>
latexVars == <<paragraph, table>>
docxVars  == <<block, calls, doc>>
scanVars  == <<pos, next_match>>
parseVars == <<content, body, blocks>>
callVars  == <<in_path, out_path, file_state, fault, call_result>>
batchVars == <<input_files, output_dir, direction, index, results, failed,
               disk, outputs, temp_dirs, callVars>>

vars == <<pc, codecVars, latexVars, docxVars, scanVars, parseVars, batchVars>>

(***************************************************************************)
(* String helpers: str.startswith, str.find, `in`, str.replace             *)
(***************************************************************************)
\* s[i-1:].startswith(p)
StartsWithAt(s, p, i) ==
    /\ i >= 1
    /\ i + Len(p) - 1 <= Len(s)
    /\ SubSeq(s, i, i + Len(p) - 1) = p

StartsWith(s, p) == StartsWithAt(s, p, 1)

\* s.find(p, from-1) + 1: the first position >= from where p occurs, 0 if none
\* (the start positions lo..hi are searched by halves, the lower half first)
RECURSIVE FindIn(_, _, _, _)
FindIn(s, p, lo, hi) ==
    IF lo > hi THEN 0
    ELSE IF lo = hi
    THEN (IF SubSeq(s, lo, lo + Len(p) - 1) = p THEN lo ELSE 0)
    ELSE LET mid == (lo + hi) \div 2
             low == FindIn(s, p, lo, mid)
         IN  IF low # 0 THEN low ELSE FindIn(s, p, mid + 1, hi)

Find(s, p, from) == FindIn(s, p, from, Len(s) - Len(p) + 1)

Contains(s, p) == Find(s, p, 1) # 0

\* s[i-1:]
Tail_(s, i) == SubSeq(s, i, Len(s))

\* s.replace(old, new): every non-overlapping occurrence, left to right
RECURSIVE Replace(_, _, _)
Replace(s, old, new) ==
    LET i == Find(s, old, 1)
    IN  IF i = 0 THEN s
        ELSE SubSeq(s, 1, i - 1) \o new \o Replace(Tail_(s, i + Len(old)), old, new)

\* all concatenations of at most n fragments of F
RECURSIVE Concats(_, _)
Concats(F, n) ==
    IF n = 0 THEN {""}
    ELSE LET P == Concats(F, n - 1)
         IN  P \cup {p \o f : p \in P, f \in F}

(***************************************************************************)
(* utils.py: the escape table and the codec                                *)
(***************************************************************************)
\* LATEX_SPECIAL_CHARS, in the dict's insertion order
LATEX_SPECIAL_CHARS ==
    << <<"&", "\\&">>,
       <<"%", "\\%">>,
       <<"$", "\\$">>,
       <<"#", "\\#">>,
       <<"_", "\\_">>,
       <<"{", "\\{">>,
       <<"}", "\\}">>,
       <<"~", "\\textasciitilde{}">>,
       <<"^", "\\textasciicircum{}">>,
       <<"\\", "\\textbackslash{}">> >>

TableSize == Len(LATEX_SPECIAL_CHARS)

\* the loop of escape_latex from table entry k on
RECURSIVE EscapeLoop(_, _)
EscapeLoop(s, k) ==
    IF k > TableSize THEN s
    ELSE LET char == LATEX_SPECIAL_CHARS[k][1]
             esc  == LATEX_SPECIAL_CHARS[k][2]
         IN  IF char # "\\"
             THEN EscapeLoop(Replace(s, char, esc), k + 1)
             ELSE EscapeLoop(s, k + 1)

\* a variant that forgets to handle the backslash first: it is replaced in
\* table order, after the other escapes have put backslashes into the text
escape_latex_table_order(t) ==
    LET RECURSIVE Loop(_, _)
        Loop(s, k) ==
            IF k > TableSize THEN s
            ELSE Loop(Replace(s, LATEX_SPECIAL_CHARS[k][1],
                                 LATEX_SPECIAL_CHARS[k][2]), k + 1)
    IN  IF t = "" THEN "" ELSE Loop(t, 1)

escape_latex(t) ==
    IF t = "" THEN ""
    ELSE EscapeLoop(Replace(t, "\\", "\\textbackslash{}"), 1)

\* the loop of unescape_latex from table entry k on
RECURSIVE UnescapeLoop(_, _)
UnescapeLoop(s, k) ==
    IF k > TableSize THEN s
    ELSE UnescapeLoop(Replace(s, LATEX_SPECIAL_CHARS[k][2],
                                 LATEX_SPECIAL_CHARS[k][1]), k + 1)

unescape_latex(t) ==
    IF t = "" THEN "" ELSE UnescapeLoop(t, 1)

(***************************************************************************)
(* The escape codec as a state machine: escape then unescape a text, or    *)
(* unescape the text directly.                                             *)
(***************************************************************************)
\* a match object; found = FALSE is None.  start and end are the 0-based
\* offsets match.start() and match.end(); g1 and g2 are the groups
NoMatch == [found |-> FALSE, type |-> "none", start |-> 0, end |-> 0,
            g1 |-> "", g2 |-> ""]

\* the variables of the components a specification leaves alone
IdleCodec == text = "" /\ escaped = "" /\ unescaped = ""
IdleLatex ==
    /\ paragraph = [style_name |-> "", runs |-> <<>>, alignment |-> "left"]
    /\ table = <<>>
IdleParse == content = "" /\ body = "" /\ blocks = <<>>
IdleCall ==
    /\ in_path = "" /\ out_path = <<>> /\ file_state = "ok"
    /\ fault = "none" /\ call_result = <<>>
IdleBatch ==
    /\ input_files = <<>> /\ output_dir = <<>> /\ direction = <<>>
    /\ index = 1 /\ results = <<>> /\ failed = {}
    /\ disk = <<>> /\ outputs = {} /\ temp_dirs = {}
    /\ IdleCall
IdleDocx  == block = "" /\ calls = <<>> /\ doc = <<>>
                 /\ pos = 0 /\ next_match = NoMatch

\* the most fragments a plain codec input is made of
MaxCodecFrags == 3

\* the most fragments an escaped-looking codec input is made of
MaxEscapedFrags == 4

\* the ten control characters, a letter, and the three command stems
CodecFragments ==
    {"&", "%", "$", "#", "_", "{", "}", "~", "^", "\\", "a",
     "\\textbackslash", "\\textasciitilde", "\\textasciicircum"}

\* pieces of escaped text: command stems, braces, backslash, ampersand
EscapedFragments ==
    {"\\textbackslash", "\\textasciitilde", "\\", "{", "}", "&"}

CodecInputs ==
    Concats(CodecFragments, MaxCodecFrags)
        \cup Concats(EscapedFragments, MaxEscapedFrags)

InitCodec ==
    /\ pc = "input"
    /\ text \in CodecInputs
    /\ escaped = ""
    /\ unescaped = ""
    /\ IdleLatex /\ IdleDocx /\ IdleParse /\ IdleBatch

Escape ==
    /\ pc = "input"
    /\ escaped' = escape_latex(text)
    /\ pc' = "escaped"
    /\ UNCHANGED <<text, unescaped, latexVars, docxVars, scanVars,
                 parseVars, batchVars>>

UnescapeEscaped ==
    /\ pc = "escaped"
    /\ unescaped' = unescape_latex(escaped)
    /\ pc' = "roundtrip"
    /\ UNCHANGED <<text, escaped, latexVars, docxVars, scanVars,
                 parseVars, batchVars>>

UnescapeInput ==
    /\ pc = "input"
    /\ unescaped' = unescape_latex(text)
    /\ pc' = "unescaped"
    /\ UNCHANGED <<text, escaped, latexVars, docxVars, scanVars,
                 parseVars, batchVars>>

NextCodec == Escape \/ UnescapeEscaped \/ UnescapeInput

SpecCodec == InitCodec /\ [][NextCodec]_vars

(***************************************************************************)
(* Reference codecs the claims compare the code with                       *)
(***************************************************************************)
\* the escape-table entry of a character, the character itself if none
TableEntry(c) ==
    LET K == {k \in 1..TableSize : LATEX_SPECIAL_CHARS[k][1] = c}
    IN  IF K = {} THEN c ELSE LATEX_SPECIAL_CHARS[CHOOSE k \in K : TRUE][2]

\* one left-to-right scan: each input character classified once
RECURSIVE EscapeScan(_)
EscapeScan(s) ==
    IF Len(s) <= 1 THEN TableEntry(s)
    ELSE LET mid == Len(s) \div 2
         IN  EscapeScan(SubSeq(s, 1, mid)) \o EscapeScan(Tail_(s, mid + 1))

\* the table entries whose escape sequence starts at position i of s
EntriesAt(s, i) ==
    {k \in 1..TableSize : StartsWithAt(s, LATEX_SPECIAL_CHARS[k][2], i)}

\* left-to-right tokenizer, the longest escape sequence first
RECURSIVE UnescapeTokenizer(_)
UnescapeTokenizer(s) ==
    IF s = "" THEN ""
    ELSE LET K == EntriesAt(s, 1)
         IN  IF K = {}
             THEN SubSeq(s, 1, 1) \o UnescapeTokenizer(Tail_(s, 2))
             ELSE LET k == CHOOSE x \in K : \A y \in K :
                               Len(LATEX_SPECIAL_CHARS[y][2])
                                   <= Len(LATEX_SPECIAL_CHARS[x][2])
                  IN  LATEX_SPECIAL_CHARS[k][1]
                          \o UnescapeTokenizer(
                                 Tail_(s, 1 + Len(LATEX_SPECIAL_CHARS[k][2])))

\* t contains one of the ten escape sequences
HasEscapeSequence(t) ==
    \E k \in 1..TableSize : Contains(t, LATEX_SPECIAL_CHARS[k][2])

\* C1: for every plain text that contains none of the ten escape sequences,
\* unescaping the escaped text gives the text back.
C1_RoundTrip ==
    (pc = "roundtrip" /\ ~HasEscapeSequence(text)) => unescaped = text

\* C1 witness: a text of control characters, backslash included, came back.
C1_Witness ==
    /\ pc = "roundtrip"
    /\ text = "\\~{"
    /\ ~HasEscapeSequence(text)
    /\ escaped # text
    /\ unescaped = text

\* C2: escape_latex(text) is the result of one left-to-right scan replacing
\* each character by its table entry; emitted escape sequences are never
\* escaped again (a backslash escapes to \textbackslash{} with braces intact).
C2_EscapeIsSingleScan ==
    pc = "escaped" => escaped = EscapeScan(text)

\* C3: unescape_latex(s) is the result of the left-to-right longest-match
\* tokenizer; replaced text never joins its neighbours to form a further
\* escape sequence.
C3_UnescapeIsTokenizer ==
    pc = "unescaped" => unescaped = UnescapeTokenizer(text)

(***************************************************************************)
(* More string helpers: str.strip, str.split                               *)
(***************************************************************************)
\* the characters str.strip() removes and the regex class \s matches
Whitespace == {" ", "\n", "\t", "\r"}

CharAt(s, i) == IF i >= 1 /\ i <= Len(s) THEN SubSeq(s, i, i) ELSE ""

RECURSIVE LStrip(_)
LStrip(s) ==
    IF s # "" /\ CharAt(s, 1) \in Whitespace THEN LStrip(Tail_(s, 2)) ELSE s

RECURSIVE RStrip(_)
RStrip(s) ==
    IF s # "" /\ CharAt(s, Len(s)) \in Whitespace
    THEN RStrip(SubSeq(s, 1, Len(s) - 1))
    ELSE s

Strip(s) == RStrip(LStrip(s))

\* s.split(sep): the parts between the occurrences of sep, empty ones kept
RECURSIVE Split(_, _)
Split(s, sep) ==
    LET i == Find(s, sep, 1)
    IN  IF i = 0 THEN <<s>>
        ELSE <<SubSeq(s, 1, i - 1)>> \o Split(Tail_(s, i + Len(sep)), sep)

(***************************************************************************)
(* docx.py, _parse_inline_formatting: the four patterns and the scan       *)
(***************************************************************************)
\* the patterns list: \\cmd\{([^}]+)\}, and for href a second \{([^}]+)\}
patterns ==
    << [cmd |-> "\\textbf{",    type |-> "bold",      groups |-> 1],
       [cmd |-> "\\textit{",    type |-> "italic",    groups |-> 1],
       [cmd |-> "\\underline{", type |-> "underline", groups |-> 1],
       [cmd |-> "\\href{",      type |-> "hyperlink", groups |-> 2] >>

\* a variant of the group that may be empty, ([^}]*)\}
GroupEndOrEmpty(s, a) ==
    LET e == Find(s, "}", a)
    IN  IF e >= a THEN e ELSE 0

\* the position of the } that closes ([^}]+)\} opened at position a, 0 when
\* the group would be empty or no } follows
GroupEnd(s, a) ==
    LET e == Find(s, "}", a)
    IN  IF e > a THEN e ELSE 0

\* pattern p matched at position i of s (1-based), NoMatch if it does not
MatchAt(p, s, i) ==
    IF ~StartsWithAt(s, p.cmd, i) THEN NoMatch
    ELSE LET a1 == i + Len(p.cmd)
             e1 == GroupEnd(s, a1)
         IN  IF e1 = 0 THEN NoMatch
             ELSE IF p.groups = 1
             THEN [found |-> TRUE, type |-> p.type, start |-> i - 1,
                   end |-> e1, g1 |-> SubSeq(s, a1, e1 - 1), g2 |-> ""]
             ELSE IF CharAt(s, e1 + 1) # "{" THEN NoMatch
             ELSE LET a2 == e1 + 2
                      e2 == GroupEnd(s, a2)
                  IN  IF e2 = 0 THEN NoMatch
                      ELSE [found |-> TRUE, type |-> p.type, start |-> i - 1,
                            end |-> e2, g1 |-> SubSeq(s, a1, e1 - 1),
                            g2 |-> SubSeq(s, a2, e2 - 1)]

\* re.search(pattern, s): the match at the lowest position
RECURSIVE SearchFrom(_, _, _)
SearchFrom(p, s, i) ==
    LET j == Find(s, p.cmd, i)
    IN  IF j = 0 THEN NoMatch
        ELSE LET m == MatchAt(p, s, j)
             IN  IF m.found THEN m ELSE SearchFrom(p, s, j + 1)

Search(p, s) == SearchFrom(p, s, 1)

\* a variant of the pattern loop that lets a later pattern win a tie or a
\* later start (<= for <)
RECURSIVE FirstOccurrenceLastWins(_, _, _)
FirstOccurrenceLastWins(s, k, best) ==
    IF k > Len(patterns) THEN best
    ELSE LET match == Search(patterns[k], s)
         IN  IF match.found /\ (~best.found \/ match.start >= best.start)
             THEN FirstOccurrenceLastWins(s, k + 1, match)
             ELSE FirstOccurrenceLastWins(s, k + 1, best)

\* the for loop over patterns: the first occurrence among all patterns
RECURSIVE FirstOccurrence(_, _, _)
FirstOccurrence(s, k, best) ==
    IF k > Len(patterns) THEN best
    ELSE LET match == Search(patterns[k], s)
         IN  IF match.found /\ (~best.found \/ match.start < best.start)
             THEN FirstOccurrence(s, k + 1, match)
             ELSE FirstOccurrence(s, k + 1, best)

\* paragraph.add_run(t): a run with no formatting set
PlainRun(t) == [text |-> t, bold |-> FALSE, italic |-> FALSE,
                underline |-> FALSE]

\* the run added for a match: the link text plain, or group 1 with its flag
MatchRun(m) ==
    IF m.type = "hyperlink" THEN PlainRun(unescape_latex(m.g2))
    ELSE [text |-> unescape_latex(m.g1), bold |-> m.type = "bold",
          italic |-> m.type = "italic", underline |-> m.type = "underline"]

\* add_run(t) guarded by `if t:`
RunIf(t) == IF t # "" THEN <<PlainRun(t)>> ELSE <<>>

\* a variant of the iteration that jumps past the command name and its
\* opening brace only, so that the text of the span is scanned again
InlineStepRescan(s, p) ==
    LET m == FirstOccurrence(Tail_(s, p + 1), 1, NoMatch)
    IN  IF ~m.found
        THEN [match |-> m, runs |-> RunIf(unescape_latex(Tail_(s, p + 1))),
              pos |-> p, break |-> TRUE]
        ELSE [match |-> m,
              runs |-> RunIf(unescape_latex(SubSeq(s, p + 1, p + m.start)))
                           \o <<MatchRun(m)>>,
              pos |-> p + m.end - Len(m.g1) - Len(m.g2) - 1, break |-> FALSE]

\* one iteration of the while loop at position p (0-based) of string s:
\* the match chosen, the runs added, the new position, whether it broke out
InlineStep(s, p) ==
    LET m == FirstOccurrence(Tail_(s, p + 1), 1, NoMatch)
    IN  IF ~m.found
        THEN [match |-> m, runs |-> RunIf(unescape_latex(Tail_(s, p + 1))),
              pos |-> p, break |-> TRUE]
        ELSE [match |-> m,
              runs |-> RunIf(unescape_latex(SubSeq(s, p + 1, p + m.start)))
                           \o <<MatchRun(m)>>,
              pos |-> p + m.end, break |-> FALSE]

\* the whole while loop from position p: all the runs it adds
RECURSIVE InlineRuns(_, _)
InlineRuns(s, p) ==
    IF ~(p < Len(s)) THEN <<>>
    ELSE LET st == InlineStep(s, p)
         IN  IF st.break THEN st.runs ELSE st.runs \o InlineRuns(s, st.pos)

(***************************************************************************)
(* docx.py: the block handlers.  Each gives the elements it adds to        *)
(* self.doc, in order.                                                     *)
(***************************************************************************)
\* the position after the greedy (?:sub)* that starts at position j
RECURSIVE SkipSubs(_, _)
SkipSubs(s, j) ==
    IF StartsWithAt(s, "sub", j) THEN SkipSubs(s, j + 3) ELSE j

\* re.search(r'\\(?:sub)*section\{([^}]+)\}', s) from position i on
RECURSIVE SearchSection(_, _)
SearchSection(s, i) ==
    LET b == Find(s, "\\", i)
    IN  IF b = 0 THEN NoMatch
        ELSE LET j == SkipSubs(s, b + 1)
                 a == j + Len("section{")
                 e == IF StartsWithAt(s, "section{", j)
                      THEN GroupEnd(s, a) ELSE 0
             IN  IF e # 0
                 THEN [found |-> TRUE, type |-> "section", start |-> b - 1,
                       end |-> e, g1 |-> SubSeq(s, a, e - 1), g2 |-> ""]
                 ELSE SearchSection(s, b + 1)

\* _process_section
process_section(blk, level) ==
    LET match == SearchSection(blk, 1)
    IN  IF ~match.found THEN <<>>
        ELSE <<[kind |-> "heading", level |-> level,
                text |-> unescape_latex(match.g1)]>>

\* _process_paragraph, with the inline scan run to its end
process_paragraph(blk) ==
    IF Strip(blk) = "" THEN <<>>
    ELSE <<[kind |-> "paragraph", runs |-> InlineRuns(blk, 0)]>>

\* a variant of the span search that is greedy: it ends at the last end
\* marker after the first begin marker
LazySpanGreedy(s, begin, end) ==
    LET b == Find(s, begin, 1)
        E == {x \in (b + Len(begin))..Len(s) : StartsWithAt(s, end, x)}
        x == IF b = 0 \/ E = {} THEN 0
             ELSE CHOOSE last \in E : \A y \in E : y <= last
    IN  IF x = 0 THEN NoMatch
        ELSE [found |-> TRUE, type |-> "span", start |-> b - 1,
              end |-> x + Len(end) - 1,
              g1 |-> SubSeq(s, b + Len(begin), x - 1), g2 |-> ""]

\* re.search(begin(.*?)end, s, re.DOTALL): the lazy span between the first
\* begin marker and the first end marker after it
LazySpan(s, begin, end) ==
    LET b == Find(s, begin, 1)
        x == IF b = 0 THEN 0 ELSE Find(s, end, b + Len(begin))
    IN  IF x = 0 THEN NoMatch
        ELSE [found |-> TRUE, type |-> "span", start |-> b - 1,
              end |-> x + Len(end) - 1,
              g1 |-> SubSeq(s, b + Len(begin), x - 1), g2 |-> ""]

\* re.search(r'\\begin\{tabular\}\{[^}]+\}(.*?)\\end\{tabular\}', s, DOTALL)
RECURSIVE SearchTabular(_, _)
SearchTabular(s, i) ==
    LET b == Find(s, "\\begin{tabular}{", i)
    IN  IF b = 0 THEN NoMatch
        ELSE LET e == GroupEnd(s, b + Len("\\begin{tabular}{"))
                 x == IF e = 0 THEN 0 ELSE Find(s, "\\end{tabular}", e + 1)
             IN  IF x # 0
                 THEN [found |-> TRUE, type |-> "tabular", start |-> b - 1,
                       end |-> x + Len("\\end{tabular}") - 1,
                       g1 |-> SubSeq(s, e + 1, x - 1), g2 |-> ""]
                 ELSE SearchTabular(s, b + 1)

\* [row.strip() for row in parts if row.strip()]
RECURSIVE StrippedNonEmpty(_)
StrippedNonEmpty(parts) ==
    IF parts = <<>> THEN <<>>
    ELSE (IF Strip(Head(parts)) # "" THEN <<Strip(Head(parts))>> ELSE <<>>)
             \o StrippedNonEmpty(Tail(parts))

\* [row for row in rows if not row.startswith('\\')]
RECURSIVE WithoutRules(_)
WithoutRules(rows) ==
    IF rows = <<>> THEN <<>>
    ELSE (IF ~StartsWith(Head(rows), "\\") THEN <<Head(rows)>> ELSE <<>>)
             \o WithoutRules(Tail(rows))

\* the rows _process_table keeps of the tabular's content
TableRows(table_content) ==
    WithoutRules(StrippedNonEmpty(Split(table_content, "\\\\")))

\* cells = [unescape_latex(cell.strip()) for cell in row_text.split('&')]
RowCells(row_text) ==
    LET cells == Split(row_text, "&")
    IN  [k \in 1..Len(cells) |-> unescape_latex(Strip(cells[k]))]

\* a cell of a table add_table has just made: empty, nothing assigned
EmptyCell == [written |-> FALSE, text |-> ""]

\* a variant of the cell loop that assigns every position of the row,
\* the positions beyond the row's cells with the empty string
RECURSIVE WriteCellsPadded(_, _, _, _)
WriteCellsPadded(row, cells, j, num_cols) ==
    IF j > num_cols THEN row
    ELSE WriteCellsPadded(
             [row EXCEPT ![j] = [written |-> TRUE,
                                 text |-> IF j <= Len(cells) THEN cells[j]
                                          ELSE ""]],
             cells, j + 1, num_cols)

\* for j, cell_text in enumerate(cells): if j < num_cols: ...text = cell_text
RECURSIVE WriteCells(_, _, _, _)
WriteCells(row, cells, j, num_cols) ==
    IF j > Len(cells) THEN row
    ELSE WriteCells(
             IF j <= num_cols
             THEN [row EXCEPT ![j] = [written |-> TRUE, text |-> cells[j]]]
             ELSE row,
             cells, j + 1, num_cols)

\* _process_table
process_table(blk) ==
    LET tabular_match == SearchTabular(blk, 1)
        rows == TableRows(tabular_match.g1)
        num_cols == Len(Split(rows[1], "&"))
    IN  IF ~tabular_match.found THEN <<>>
        ELSE IF rows = <<>> THEN <<>>
        ELSE <<[kind |-> "table", num_cols |-> num_cols,
                rows |-> [i \in 1..Len(rows) |->
                            WriteCells([j \in 1..num_cols |-> EmptyCell],
                                       RowCells(rows[i]), 1, num_cols)]]>>

\* the position after the optional (?:\[[^\]]+\])? that may start at k
AfterOptions(s, k) ==
    LET e == Find(s, "]", k + 1)
    IN  IF CharAt(s, k) = "[" /\ e > k + 1 THEN e + 1 ELSE k

\* re.search(r'\\includegraphics(?:\[[^\]]+\])?\{([^}]+)\}', s) from i on
RECURSIVE SearchGraphics(_, _)
SearchGraphics(s, i) ==
    LET b == Find(s, "\\includegraphics", i)
    IN  IF b = 0 THEN NoMatch
        ELSE LET k == AfterOptions(s, b + Len("\\includegraphics"))
                 e == IF CharAt(s, k) = "{" THEN GroupEnd(s, k + 1) ELSE 0
             IN  IF e # 0
                 THEN [found |-> TRUE, type |-> "graphics", start |-> b - 1,
                       end |-> e, g1 |-> SubSeq(s, k + 1, e - 1), g2 |-> ""]
                 ELSE SearchGraphics(s, b + 1)

\* what the file system and add_picture do with an image path
ImageStates == {"missing", "added", "unreadable"}

\* _process_figure; image is the state of the file at the path
process_figure(blk, image) ==
    LET match == SearchGraphics(blk, 1)
        image_path == match.g1
    IN  IF ~match.found THEN <<>>
        ELSE IF image = "added"
        THEN <<[kind |-> "picture", path |-> image_path]>>
        ELSE IF image = "unreadable"
        THEN <<[kind |-> "paragraph", runs |-> <<PlainRun(
                  "[Image file found but could not be added: "
                      \o image_path \o "]")>>]>>
        ELSE <<[kind |-> "paragraph", runs |-> <<PlainRun(
                  "[Image not found at path: " \o image_path \o "]")>>]>>

\* the last position of the run of \s characters that starts at k (k - 1
\* when there is none)
RECURSIVE WhitespaceEnd(_, _)
WhitespaceEnd(s, k) ==
    IF k <= Len(s) /\ CharAt(s, k) \in Whitespace
    THEN WhitespaceEnd(s, k + 1)
    ELSE k - 1

\* the last position of the run of [^\\\n] characters that starts at k
ItemTextEnd(s, k) ==
    LET stops == {Find(s, "\\", k), Find(s, "\n", k)} \ {0}
    IN  IF stops = {} THEN Len(s)
        ELSE (CHOOSE x \in stops : \A y \in stops : x <= y) - 1

\* where ([^\\\n]+) starts after the greedy \s+ over positions w..r: right
\* after the run, or, backtracking, at the last character of the run that is
\* no line break; 0 when \s+ and the group cannot both match
RECURSIVE ItemTextStart(_, _, _)
ItemTextStart(s, w, g) ==
    IF g <= w THEN 0
    ELSE IF g <= Len(s) /\ CharAt(s, g) \notin {"\\", "\n"} THEN g
    ELSE ItemTextStart(s, w, g - 1)

\* re.findall(r'\\item\s+([^\\\n]+)', s) from position i on
RECURSIVE FindItems(_, _)
FindItems(s, i) ==
    LET b == Find(s, "\\item", i)
    IN  IF b = 0 THEN <<>>
        ELSE LET w == b + Len("\\item")
                 g == ItemTextStart(s, w, WhitespaceEnd(s, w) + 1)
                 e == ItemTextEnd(s, g)
             IN  IF g = 0 THEN FindItems(s, b + 1)
                 ELSE <<SubSeq(s, g, e)>> \o FindItems(s, e + 1)

\* _process_list
process_list(blk) ==
    LET is_numbered == Contains(blk, "\\begin{enumerate}")
        items == FindItems(blk, 1)
    IN  [k \in 1..Len(items) |->
            [kind |-> "list_item",
             style |-> IF is_numbered THEN "List Number" ELSE "List Bullet",
             text |-> unescape_latex(Strip(items[k]))]]

\* _process_centered_text
process_centered_text(blk) ==
    LET match == LazySpan(blk, "\\begin{center}", "\\end{center}")
        center_content == unescape_latex(Strip(match.g1))
    IN  IF ~match.found THEN <<>>
        ELSE <<[kind |-> "paragraph", alignment |-> "center",
                runs |-> RunIf(center_content)]>>

\* a variant of the dispatch that looks for the table environment before
\* the heading markers
process_block_table_first(blk) ==
    IF Contains(blk, "\\begin{table}") THEN "table"
    ELSE IF StartsWith(blk, "\\section") THEN "section1"
    ELSE IF StartsWith(blk, "\\subsection") THEN "section2"
    ELSE IF StartsWith(blk, "\\subsubsection") THEN "section3"
    ELSE IF Contains(blk, "\\begin{figure}") THEN "figure"
    ELSE IF Contains(blk, "\\begin{itemize}")
              \/ Contains(blk, "\\begin{enumerate}") THEN "list"
    ELSE IF Contains(blk, "\\begin{center}") THEN "centered_text"
    ELSE "paragraph"

\* _process_block: the handler the if/elif chain calls
process_block(blk) ==
    IF StartsWith(blk, "\\section") THEN "section1"
    ELSE IF StartsWith(blk, "\\subsection") THEN "section2"
    ELSE IF StartsWith(blk, "\\subsubsection") THEN "section3"
    ELSE IF Contains(blk, "\\begin{table}") THEN "table"
    ELSE IF Contains(blk, "\\begin{figure}") THEN "figure"
    ELSE IF Contains(blk, "\\begin{itemize}")
              \/ Contains(blk, "\\begin{enumerate}") THEN "list"
    ELSE IF Contains(blk, "\\begin{center}") THEN "centered_text"
    ELSE "paragraph"

\* the elements the handler called for a block adds to the document
HandlerElements(handler, blk, image) ==
    CASE handler = "section1"      -> process_section(blk, 1)
      [] handler = "section2"      -> process_section(blk, 2)
      [] handler = "section3"      -> process_section(blk, 3)
      [] handler = "table"         -> process_table(blk)
      [] handler = "figure"        -> process_figure(blk, image)
      [] handler = "list"          -> process_list(blk)
      [] handler = "centered_text" -> process_centered_text(blk)
      [] OTHER                     -> process_paragraph(blk)

BlockElements(blk, image) == HandlerElements(process_block(blk), blk, image)

(***************************************************************************)
(* latex.py: paragraph and heading emission                                *)
(***************************************************************************)
\* str(d) for one decimal digit, str(n) for a natural number
DigitStr(d) == SubSeq("0123456789", d + 1, d + 1)

RECURSIVE NatStr(_)
NatStr(n) == IF n < 10 THEN DigitStr(n) ELSE NatStr(n \div 10) \o DigitStr(n % 10)

\* the name of Word's heading style of a level
HeadingStyle(level) == "Heading " \o NatStr(level)

\* paragraph.text: the texts of the runs joined
RECURSIVE RunsText(_)
RunsText(runs) ==
    IF runs = <<>> THEN "" ELSE Head(runs).text \o RunsText(Tail(runs))

\* a variant of _process_heading without the 'Heading 4' branch
process_heading_no_paragraph(para) ==
    LET t == escape_latex(RunsText(para.runs))
        style_name == para.style_name
    IN  IF Contains(style_name, "Heading 1") THEN "\\section{" \o t \o "}"
        ELSE IF Contains(style_name, "Heading 2")
        THEN "\\subsection{" \o t \o "}"
        ELSE IF Contains(style_name, "Heading 3")
        THEN "\\subsubsection{" \o t \o "}"
        ELSE "\\subparagraph{" \o t \o "}"

\* _process_heading
process_heading(para) ==
    LET t == escape_latex(RunsText(para.runs))
        style_name == para.style_name
    IN  IF Contains(style_name, "Heading 1") THEN "\\section{" \o t \o "}"
        ELSE IF Contains(style_name, "Heading 2")
        THEN "\\subsection{" \o t \o "}"
        ELSE IF Contains(style_name, "Heading 3")
        THEN "\\subsubsection{" \o t \o "}"
        ELSE IF Contains(style_name, "Heading 4")
        THEN "\\paragraph{" \o t \o "}"
        ELSE "\\subparagraph{" \o t \o "}"

\* a variant of the loop body that wraps italic first and bold around it
RunMarkupItalicFirst(run) ==
    LET t0 == escape_latex(run.text)
        t1 == IF run.italic THEN "\\textit{" \o t0 \o "}" ELSE t0
        t2 == IF run.bold THEN "\\textbf{" \o t1 \o "}" ELSE t1
        t3 == IF run.underline THEN "\\underline{" \o t2 \o "}" ELSE t2
    IN  IF run.url # "" THEN "\\href{" \o run.url \o "}{" \o t3 \o "}" ELSE t3

\* the body of the loop over paragraph.runs: one run's markup
RunMarkup(run) ==
    LET t0 == escape_latex(run.text)
        t1 == IF run.bold THEN "\\textbf{" \o t0 \o "}" ELSE t0
        t2 == IF run.italic THEN "\\textit{" \o t1 \o "}" ELSE t1
        t3 == IF run.underline THEN "\\underline{" \o t2 \o "}" ELSE t2
    IN  IF run.url # "" THEN "\\href{" \o run.url \o "}{" \o t3 \o "}" ELSE t3

RECURSIVE RunsMarkup(_)
RunsMarkup(runs) ==
    IF runs = <<>> THEN ""
    ELSE RunMarkup(Head(runs)) \o RunsMarkup(Tail(runs))

\* LatexGenerator._process_paragraph
latex_process_paragraph(para) ==
    LET paragraph_text == RunsMarkup(para.runs)
    IN  IF Strip(RunsText(para.runs)) = "" THEN ""
        ELSE IF StartsWith(para.style_name, "Heading")
        THEN process_heading(para)
        ELSE IF para.alignment = "center"
        THEN "\\begin{center}\n" \o paragraph_text \o "\n\\end{center}"
        ELSE IF para.alignment = "right"
        THEN "\\begin{flushright}\n" \o paragraph_text
                 \o "\n\\end{flushright}"
        ELSE paragraph_text

\* a Word run without a hyperlink
WordRun(t, b, i, u) ==
    [text |-> t, bold |-> b, italic |-> i, underline |-> u, url |-> ""]

(***************************************************************************)
(* latex.py: table emission.  A Word table is the sequence of its rows, a  *)
(* row the sequence of its cells' texts.                                   *)
(***************************************************************************)
\* sep.join(parts)
RECURSIVE Join(_, _)
Join(parts, sep) ==
    IF parts = <<>> THEN ""
    ELSE IF Len(parts) = 1 THEN Head(parts)
    ELSE Head(parts) \o sep \o Join(Tail(parts), sep)

\* '|'.join(['l'] * num_cols)
ColumnSpec(num_cols) == Join([k \in 1..num_cols |-> "l"], "|")

\* the body of the row loop of _process_table for the row at position i:
\* the row's line, followed by the rule line after the first row
EmittedRow(row, i) ==
    LET cells == [j \in 1..Len(row) |-> escape_latex(Strip(row[j]))]
    IN  <<Join(cells, " & ") \o " \\\\">>
            \o (IF i = 1 THEN <<"\\midrule">> ELSE <<>>)

\* the lines the row loop appends for the rows from position i on
RECURSIVE EmittedRows(_, _)
EmittedRows(tbl, i) ==
    IF i > Len(tbl) THEN <<>>
    ELSE EmittedRow(tbl[i], i) \o EmittedRows(tbl, i + 1)

\* LatexGenerator._process_table
latex_process_table(tbl) ==
    IF tbl = <<>> THEN ""
    ELSE Join(<<"\\begin{table}[h]", "\\centering",
                "\\begin{tabular}{" \o ColumnSpec(Len(tbl[1])) \o "}",
                "\\toprule">>
                  \o EmittedRows(tbl, 1)
                  \o <<"\\bottomrule", "\\end{tabular}", "\\end{table}">>,
              "\n")

(***************************************************************************)
(* Heading round trip: the LaTeX generator emits a paragraph, the DOCX     *)
(* generator processes the markup as one block.                            *)
(***************************************************************************)
\* the deepest heading level of an input paragraph
MaxHeadingLevel == 10

HeadingTitles == {"Title", "Cost & Tax", "a_b"}

ParagraphStyles ==
    {HeadingStyle(level) : level \in 1..MaxHeadingLevel} \cup {"Normal"}

InitHeading ==
    /\ pc = "paragraph"
    /\ table = <<>>
    /\ paragraph \in
           {[style_name |-> st, runs |-> <<WordRun(t, b, FALSE, FALSE)>>,
             alignment |-> "left"] :
               st \in ParagraphStyles, t \in HeadingTitles, b \in BOOLEAN}
    /\ IdleCodec /\ IdleDocx /\ IdleParse /\ IdleBatch

\* LatexGenerator._process_paragraph; an empty result is no block
GenerateParagraph ==
    /\ pc = "paragraph"
    /\ block' = latex_process_paragraph(paragraph)
    /\ pc' = IF block' = "" THEN "built" ELSE "block"
    /\ UNCHANGED <<codecVars, latexVars, calls, doc, scanVars, parseVars,
                 batchVars>>

\* DocxGenerator._process_block; a paragraph block starts the inline scan.
\* The state of the image file matters to _process_figure only.
ProcessBlock ==
    /\ pc = "block"
    /\ \E image \in (IF process_block(block) = "figure" THEN ImageStates
                      ELSE {"missing"}) :
         LET handler == process_block(block)
         IN  /\ calls' = Append(calls, handler)
             /\ IF handler = "paragraph" /\ Strip(block) # ""
                THEN /\ doc' = Append(doc, [kind |-> "paragraph",
                                            runs |-> <<>>])
                     /\ pc' = "scan"
                ELSE /\ doc' = doc \o HandlerElements(handler, block, image)
                     /\ pc' = "built"
    /\ pos' = 0
    /\ next_match' = NoMatch
    /\ UNCHANGED <<codecVars, latexVars, block, parseVars, batchVars>>

\* one iteration of the while loop of _parse_inline_formatting
ScanStep ==
    /\ pc = "scan"
    /\ pos < Len(block)
    /\ LET st == InlineStep(block, pos)
       IN  /\ next_match' = st.match
           /\ doc' = [doc EXCEPT ![Len(doc)].runs = @ \o st.runs]
           /\ pos' = st.pos
           /\ pc' = IF st.break \/ ~(st.pos < Len(block))
                    THEN "built" ELSE "scan"
    /\ UNCHANGED <<codecVars, latexVars, block, calls, parseVars, batchVars>>

NextHeading == GenerateParagraph \/ ProcessBlock \/ ScanStep

SpecHeading == InitHeading /\ [][NextHeading]_vars

\* the input paragraph is a heading of this level with this title
IsHeading(level, title) ==
    /\ paragraph.style_name = HeadingStyle(level)
    /\ RunsText(paragraph.runs) = title

\* n occurrences of "sub"
RECURSIVE Subs(_)
Subs(n) == IF n = 0 THEN "" ELSE "sub" \o Subs(n - 1)

\* C4: for every level in 1..4, the markup emitted for a heading of that
\* level with title "Title", processed as one block, gives exactly one
\* Heading element of the same level with the text "Title".
C4_HeadingRoundTrip ==
    \A level \in 1..4 :
        (pc = "built" /\ IsHeading(level, "Title"))
            => doc = <<[kind |-> "heading", level |-> level,
                        text |-> "Title"]>>

MaxBlockFrags == 3

\* heading markers, a title end, and the five environment markers
BlockFragments ==
    {"\\section{", "\\subsection{", "\\subsubsection{", "T}",
     "\\begin{table}", "\\begin{figure}", "\\begin{itemize}",
     "\\begin{enumerate}", "\\begin{center}"}

\* the most fragments an inline-formatting input is made of
MaxInlineFrags == 4

InlineFragments ==
    {"plain ", "\\textbf{bold}", " then ", "\\textit{italic}",
     "\\underline{u\\_}", "\\href{url}{link}"}

\* the most rows and the most cells of a row of a table input
MaxTableRows == 3
MaxTableCells == 5

\* the text of the cell in column j
CellText(j) ==
    IF j = 2 THEN "b\\_" ELSE SubSeq("abcdefghijklmnopqrstuvwxyz", j, j)

\* the cells of columns j..k joined by the column separator
RECURSIVE JoinCells(_, _)
JoinCells(j, k) ==
    IF j = k THEN CellText(j) ELSE CellText(j) \o " & " \o JoinCells(j + 1, k)

\* a row of k cells with its terminator, after a rule line if rule is set
RowMarkup(row) ==
    (IF row.rule THEN "\\midrule\n" ELSE "")
        \o JoinCells(1, row.cells) \o " \\\\\n"

RECURSIVE RowsMarkup(_)
RowsMarkup(rows) ==
    IF rows = <<>> THEN ""
    ELSE RowMarkup(Head(rows)) \o RowsMarkup(Tail(rows))

\* a table block around rows
TableMarkup(rows) ==
    "\\begin{table}[h]\n\\begin{tabular}{l|l}\n" \o RowsMarkup(rows)
        \o "\\end{tabular}\n\\end{table}"

\* rows of every cell count, and two-cell rows after a rule line
RowShapes ==
    {r \in [cells : 1..MaxTableCells, rule : BOOLEAN] : r.rule => r.cells = 2}

TableInputs ==
    {TableMarkup(rows) :
        rows \in UNION {[1..n -> RowShapes] : n \in 0..MaxTableRows}}

\* _parse_latex passes on only blocks that are stripped and not empty
IsBlock(b) == b # "" /\ Strip(b) = b

BlockInputs ==
    {b \in Concats(BlockFragments, MaxBlockFrags)
            \cup Concats(InlineFragments, MaxInlineFrags) : IsBlock(b)}
        \cup TableInputs

InitBlock ==
    /\ pc = "block"
    /\ block \in BlockInputs
    /\ calls = <<>>
    /\ doc = <<>>
    /\ pos = 0
    /\ next_match = NoMatch
    /\ IdleCodec /\ IdleLatex /\ IdleParse /\ IdleBatch

NextBlock == ProcessBlock \/ ScanStep

SpecBlock == InitBlock /\ [][NextBlock]_vars

\* the classification rules in priority order: 1 Heading, 2 Table, 3 Figure,
\* 4 List, 5 Centered text, 6 Paragraph; whether rule k matches block b
RuleMatches(k, b) ==
    CASE k = 1 -> \E marker \in {"\\section", "\\subsection",
                                 "\\subsubsection"} : StartsWith(b, marker)
      [] k = 2 -> Contains(b, "\\begin{table}")
      [] k = 3 -> Contains(b, "\\begin{figure}")
      [] k = 4 -> Contains(b, "\\begin{itemize}")
                      \/ Contains(b, "\\begin{enumerate}")
      [] k = 5 -> Contains(b, "\\begin{center}")
      [] OTHER -> TRUE

\* the rule a handler belongs to
HandlerRule(handler) ==
    CASE handler \in {"section1", "section2", "section3"} -> 1
      [] handler = "table"         -> 2
      [] handler = "figure"        -> 3
      [] handler = "list"          -> 4
      [] handler = "centered_text" -> 5
      [] OTHER                     -> 6

\* C6: once a block is processed exactly one handler has run, the handler of
\* the highest-priority rule the block matches (Heading > Table > Figure >
\* List > Centered text > Paragraph); a block that begins with a subsection
\* marker and contains the table-environment marker is handled by the
\* heading handler and adds no table.
C6_FirstMatchWins ==
    pc \in {"scan", "built"} =>
        /\ Len(calls) = 1
        /\ RuleMatches(HandlerRule(calls[1]), block)
        /\ \A k \in 1..6 : RuleMatches(k, block) => HandlerRule(calls[1]) <= k
        /\ (StartsWith(block, "\\subsection")
                /\ Contains(block, "\\begin{table}")) =>
               /\ calls = <<"section2">>
               /\ \A e \in 1..Len(doc) : doc[e].kind # "table"

\* C6 witness: a subsection whose title contains the table marker became a
\* level-2 heading.
C6_Witness ==
    /\ pc = "built"
    /\ block = "\\subsection{\\begin{table}T}"
    /\ RuleMatches(1, block) /\ RuleMatches(2, block)
    /\ calls = <<"section2">>
    /\ doc = <<[kind |-> "heading", level |-> 2, text |-> "\\begin{table"]>>

\* the cell texts of a kept row as the markup gives them
SourceCells(row_text) == Split(row_text, "&")

\* C8: a table block with at least one kept row adds one table whose column
\* count N is the number of cells of the first kept row; row i of the table
\* holds the first N cell texts of kept row i, and when that row has k < N
\* cells the positions k+1..N are never written.
C8_ColumnCount ==
    LET tabular == SearchTabular(block, 1)
        kept == TableRows(tabular.g1)
    IN  (pc = "built" /\ calls = <<"table">> /\ tabular.found
             /\ kept # <<>>) =>
            LET N == Len(SourceCells(kept[1]))
            IN  /\ Len(doc) = 1
                /\ doc[1].kind = "table"
                /\ doc[1].num_cols = N
                /\ Len(doc[1].rows) = Len(kept)
                /\ \A i \in 1..Len(kept) :
                       LET src == SourceCells(kept[i])
                       IN  /\ Len(doc[1].rows[i]) = N
                           /\ \A j \in 1..N :
                                  doc[1].rows[i][j] =
                                      IF j <= Len(src)
                                      THEN [written |-> TRUE,
                                            text |-> unescape_latex(
                                                         Strip(src[j]))]
                                      ELSE EmptyCell

\* a written cell
Cell(t) == [written |-> TRUE, text |-> t]

\* C8 witness: first row of 3 cells, then a row of 5 (cut to 3) and a row
\* of 2 (third position left unwritten).
C8_Witness ==
    /\ pc = "built"
    /\ block = TableMarkup(<<[cells |-> 3, rule |-> FALSE],
                             [cells |-> 5, rule |-> FALSE],
                             [cells |-> 2, rule |-> FALSE]>>)
    /\ doc = <<[kind |-> "table", num_cols |-> 3,
                rows |-> << <<Cell("a"), Cell("b_"), Cell("c")>>,
                            <<Cell("a"), Cell("b_"), Cell("c")>>,
                            <<Cell("a"), Cell("b_"), EmptyCell>> >>]>>

\* the (position, pattern index) pairs at which a pattern matches in rem
MatchesIn(rem) ==
    {m \in (1..Len(rem)) \X (1..Len(patterns)) :
        MatchAt(patterns[m[2]], rem, m[1]).found}

\* the leftmost of them, the earlier pattern on a tie
Leftmost(rem) ==
    CHOOSE m \in MatchesIn(rem) :
        \A n \in MatchesIn(rem) :
            m[1] < n[1] \/ (m[1] = n[1] /\ m[2] <= n[2])

\* the run of a match of pattern k: only the pattern's own flag set (the
\* hyperlink pattern has none and gives its link text)
FormattedRun(k, m) ==
    [text |-> unescape_latex(IF k = 4 THEN m.g2 ELSE m.g1),
     bold |-> k = 1, italic |-> k = 2, underline |-> k = 3]

\* every scan step over a remainder with a match consumes the leftmost one
ConsumesLeftmost ==
    (pc = "scan" /\ MatchesIn(Tail_(block, pos + 1)) # {}) =>
        LET rem == Tail_(block, pos + 1)
            at == Leftmost(rem)
            m == MatchAt(patterns[at[2]], rem, at[1])
        IN  /\ pos' = pos + m.end
            /\ doc'[Len(doc')].runs =
                   doc[Len(doc)].runs
                       \o RunIf(unescape_latex(SubSeq(rem, 1, at[1] - 1)))
                       \o <<FormattedRun(at[2], m)>>

ScanExample == "plain \\textbf{bold} then \\textit{italic}"

ScanExampleRuns ==
    << [text |-> "plain ", bold |-> FALSE, italic |-> FALSE,
        underline |-> FALSE],
       [text |-> "bold", bold |-> TRUE, italic |-> FALSE,
        underline |-> FALSE],
       [text |-> " then ", bold |-> FALSE, italic |-> FALSE,
        underline |-> FALSE],
       [text |-> "italic", bold |-> FALSE, italic |-> TRUE,
        underline |-> FALSE] >>

\* C9: each step of the inline scan consumes the leftmost match of the four
\* patterns in the unconsumed remainder (the earlier pattern on a tie), adding
\* the text before it as a plain run and then the formatted run; and the
\* scan of "plain \textbf{bold} then \textit{italic}" ends with exactly the
\* runs plain "plain ", bold "bold", plain " then ", italic "italic".
C9_LeftmostMatch ==
    /\ [][ConsumesLeftmost]_vars
    /\ []((pc = "built" /\ block = ScanExample) =>
              doc = <<[kind |-> "paragraph", runs |-> ScanExampleRuns]>>)

\* C9 witness: the example was scanned to its end, the last step consuming
\* the italic match.
C9_Witness ==
    /\ pc = "built"
    /\ block = ScanExample
    /\ next_match.found /\ next_match.type = "italic"
    /\ pos = Len(block)
    /\ doc[1].runs = ScanExampleRuns

(***************************************************************************)
(* docx.py, _parse_latex: the envelope strip, the split into blocks and    *)
(* the loop over the blocks                                                *)
(***************************************************************************)
\* the last position of the match of \n\s*\n that starts at the line break
\* at position i: the last line break of the whitespace after i, 0 if none
BlankLineEnd(s, i) ==
    LET E == {x \in (i + 1)..WhitespaceEnd(s, i + 1) : CharAt(s, x) = "\n"}
    IN  IF E = {} THEN 0 ELSE CHOOSE last \in E : \A y \in E : y <= last

\* re.search(r'\n\s*\n', s) from position i on: <<first, last>> position of
\* the match, <<0, 0>> if none
RECURSIVE SearchBlankLine(_, _)
SearchBlankLine(s, i) ==
    LET j == Find(s, "\n", i)
    IN  IF j = 0 THEN <<0, 0>>
        ELSE IF BlankLineEnd(s, j) # 0 THEN <<j, BlankLineEnd(s, j)>>
        ELSE SearchBlankLine(s, j + 1)

\* re.split(r'\n\s*\n', s)
RECURSIVE SplitBlankLines(_)
SplitBlankLines(s) ==
    LET m == SearchBlankLine(s, 1)
    IN  IF m[1] = 0 THEN <<s>>
        ELSE <<SubSeq(s, 1, m[1] - 1)>> \o SplitBlankLines(Tail_(s, m[2] + 1))

\* _split_into_blocks
split_into_blocks(c) == StrippedNonEmpty(SplitBlankLines(c))

\* the first statement of _parse_latex: the text between the document
\* markers when the search finds them, the content as it is otherwise
strip_envelope(c) ==
    LET doc_match == LazySpan(c, "\\begin{document}", "\\end{document}")
    IN  IF doc_match.found THEN doc_match.g1 ELSE c

\* the most fragments a parser input is made of
MaxEnvelopeFrags == 4

\* a table with the end-document marker in a cell
TableWithEnd ==
    "\\begin{table}\n\\begin{tabular}{l}\nc & \\end{document} \\\\\n"
        \o "\\end{tabular}\n\\end{table}"

EnvelopeFragments ==
    {"\\begin{document}", "\\end{document}", "\n", " \n", "p ", TableWithEnd}

InitParse ==
    /\ pc = "content"
    /\ content \in Concats(EnvelopeFragments, MaxEnvelopeFrags)
    /\ body = ""
    /\ blocks = <<>>
    /\ IdleCodec /\ IdleLatex /\ IdleDocx /\ IdleBatch

\* _parse_latex up to the loop: strip the envelope, split into blocks
ParseLatex ==
    /\ pc = "content"
    /\ body' = strip_envelope(content)
    /\ blocks' = split_into_blocks(body')
    /\ pc' = IF blocks' = <<>> THEN "parsed" ELSE "blocks"
    /\ UNCHANGED <<codecVars, latexVars, docxVars, scanVars, content,
                   batchVars>>

\* for block in blocks: the next block goes to _process_block
TakeBlock ==
    /\ pc \in {"blocks", "built"}
    /\ blocks # <<>>
    /\ block' = Head(blocks)
    /\ blocks' = Tail(blocks)
    /\ pc' = "block"
    /\ UNCHANGED <<codecVars, latexVars, calls, doc, scanVars, content, body,
                   batchVars>>

NextParse == ParseLatex \/ TakeBlock \/ ProcessBlock \/ ScanStep

SpecParse == InitParse /\ [][NextParse]_vars

\* the positions at which p occurs in s
Occurrences(s, p) == {i \in 1..Len(s) : StartsWithAt(s, p, i)}

Min(S) == CHOOSE x \in S : \A y \in S : x <= y

\* the positions of the first begin-document marker and of the first
\* end-document marker after it; <<0, 0>> when no begin marker is followed
\* by an end marker
EnvelopePair(c) ==
    LET B == Occurrences(c, "\\begin{document}")
        E == Occurrences(c, "\\end{document}")
        after == {e \in E : \E b \in B : e >= b + Len("\\begin{document}")}
    IN  IF after = {} THEN <<0, 0>>
        ELSE <<Min(B), Min({e \in E : e >= Min(B) + Len("\\begin{document}")})>>

\* C7: when the input has a begin-document marker followed later by an
\* end-document marker, the body is exactly the text between the first begin
\* marker and the first end marker after it; otherwise the body is the whole
\* input unchanged.
C7_EnvelopeStrip ==
    pc # "content" =>
        LET pair == EnvelopePair(content)
        IN  IF pair = <<0, 0>> THEN body = content
            ELSE body = SubSeq(content, pair[1] + Len("\\begin{document}"),
                               pair[2] - 1)

\* C7 witness: the end-document marker in a table cell cut the body there,
\* and the truncated table block was processed.
C7_Witness ==
    /\ pc = "built"
    /\ blocks = <<>>
    /\ content = "\\begin{document}" \o TableWithEnd \o "\\end{document}"
    /\ body = "\\begin{table}\n\\begin{tabular}{l}\nc & "
    /\ calls = <<"table">>

(***************************************************************************)
(* converter.py: convert and batch_convert.  An Optional[str] is a         *)
(* sequence of at most one string: None is the empty one.                  *)
(***************************************************************************)
None == <<>>
Some(x) == <<x>>

\* str.lower() on one character, on a string
LowerOf ==
    [c \in {SubSeq("ABCDEFGHIJKLMNOPQRSTUVWXYZ", k, k) : k \in 1..26} |->
        LET k == Find("ABCDEFGHIJKLMNOPQRSTUVWXYZ", c, 1)
        IN  SubSeq("abcdefghijklmnopqrstuvwxyz", k, k)]

LowerChar(c) == IF c \in DOMAIN LowerOf THEN LowerOf[c] ELSE c

RECURSIVE Lower(_)
Lower(s) ==
    IF s = "" THEN "" ELSE LowerChar(SubSeq(s, 1, 1)) \o Lower(Tail_(s, 2))

\* the position of the dot that starts Path(p).suffix, 0 if there is none
\* (a leading or a trailing dot starts no suffix)
SuffixStart(p) ==
    LET dots == Occurrences(p, ".")
        last == CHOOSE d \in dots : \A e \in dots : e <= d
    IN  IF dots = {} THEN 0
        ELSE IF last = 1 \/ last = Len(p) THEN 0 ELSE last

\* Path(p).suffix and Path(p).stem of a file name without directories
PathSuffix(p) == IF SuffixStart(p) = 0 THEN "" ELSE Tail_(p, SuffixStart(p))
PathStem(p) ==
    IF SuffixStart(p) = 0 THEN p ELSE SubSeq(p, 1, SuffixStart(p) - 1)

\* str.lstrip('.')
RECURSIVE LStripDots(_)
LStripDots(s) == IF StartsWith(s, ".") THEN LStripDots(Tail_(s, 2)) ELSE s

\* os.path.splitext(p)[1] of a file name without directories: the text from
\* the last dot on, when a character other than a dot stands before it
SplitExt(p) ==
    LET dots == Occurrences(p, ".")
        last == CHOOSE d \in dots : \A e \in dots : e <= d
    IN  IF dots = {} THEN ""
        ELSE IF \A i \in 1..(last - 1) : i \in dots THEN ""
        ELSE Tail_(p, last)

\* utils.extract_extension
extract_extension(filename) == LStripDots(Lower(SplitExt(filename)))

\* utils.is_valid_file; state is the state of the file on disk
is_valid_file(filepath, extensions, state) ==
    IF state = "missing" THEN FALSE
    ELSE extract_extension(filepath) \in extensions

\* the result of a call: a value returned or an exception raised
\* (generator names the generator whose convert was called, if any)
Return(x) == [ok |-> TRUE, value |-> x, error |-> "", wrote |-> {},
              temp |-> FALSE, generator |-> ""]
Raise(e)  == [ok |-> FALSE, value |-> "", error |-> e, wrote |-> {},
              temp |-> FALSE, generator |-> ""]

\* a variant of _detect_direction that compares the suffix as it is spelt
detect_direction_case_sensitive(input_path) ==
    LET ext == LStripDots(PathSuffix(input_path))
    IN  IF ext = "docx" THEN Return("to_latex")
        ELSE IF ext \in {"tex", "latex"} THEN Return("to_docx")
        ELSE Raise("InvalidFileFormatError")

\* _detect_direction
detect_direction(input_path) ==
    LET ext == LStripDots(Lower(PathSuffix(input_path)))
    IN  IF ext = "docx" THEN Return("to_latex")
        ELSE IF ext \in {"tex", "latex"} THEN Return("to_docx")
        ELSE Raise("InvalidFileFormatError")

\* _generate_output_path
generate_output_path(input_path, dir) ==
    IF dir = "to_latex" THEN PathStem(input_path) \o ".tex"
    ELSE PathStem(input_path) \o ".docx"

\* ConversionOptions(): the defaults of the two options the converters read
preserve_images == TRUE
clean_temp_files == TRUE

\* where a conversion of an unreadable input fails: reading the input,
\* building the result, or writing the output file
FailurePoints == {"read", "generate", "write"}

\* LatexGenerator.convert; state is the input file's state and point the
\* statement that raises when the state is "bad".  temp tells whether the
\* generator has made a temp directory.
latex_convert(input_path, output_path, state, point) ==
    IF state = "ok"
    THEN [Return(output_path) EXCEPT !.wrote = {output_path},
                                     !.temp = preserve_images,
                                     !.generator = "LatexGenerator"]
    ELSE [Raise("ConversionError") EXCEPT
              !.wrote = IF point = "write" THEN {output_path} ELSE {},
              !.temp = preserve_images /\ point # "read",
              !.generator = "LatexGenerator"]

\* DocxGenerator.convert
docx_convert(input_path, output_path, state, point) ==
    IF state = "ok"
    THEN [Return(output_path) EXCEPT !.wrote = {output_path},
                                     !.generator = "DocxGenerator"]
    ELSE [Raise("ConversionError") EXCEPT
              !.wrote = IF point = "write" THEN {output_path} ELSE {},
              !.generator = "DocxGenerator"]

\* _convert_to_latex: the temp directory is removed after a conversion
\* that returned
convert_to_latex(input_path, output_path, state, point) ==
    LET result == latex_convert(input_path, output_path, state, point)
    IN  IF ~is_valid_file(input_path, {"docx"}, state)
        THEN Raise("InvalidFileFormatError")
        ELSE IF result.ok /\ clean_temp_files /\ result.temp
        THEN [result EXCEPT !.temp = FALSE]
        ELSE result

\* _convert_to_docx
convert_to_docx(input_path, output_path, state, point) ==
    IF ~is_valid_file(input_path, {"tex", "latex"}, state)
    THEN Raise("InvalidFileFormatError")
    ELSE docx_convert(input_path, output_path, state, point)

\* os.path.dirname(output_path), as the set of directories makedirs makes
OutputDirs(output_path) ==
    LET slashes == Occurrences(output_path, "/")
        last == CHOOSE d \in slashes : \A e \in slashes : e <= d
    IN  IF slashes = {} THEN {} ELSE {SubSeq(output_path, 1, last - 1)}

\* DocTeXConverter.convert
convert(input_path, output_path, dir, state, point) ==
    LET detected == IF dir = None THEN detect_direction(input_path)
                    ELSE Return(dir[1])
        out == IF output_path = None
               THEN generate_output_path(input_path, detected.value)
               ELSE output_path[1]
        result == IF detected.value = "to_latex"
                  THEN convert_to_latex(input_path, out, state, point)
                  ELSE IF detected.value = "to_docx"
                  THEN convert_to_docx(input_path, out, state, point)
                  ELSE Raise("ConversionError")
    IN  IF state = "missing" THEN Raise("ConversionError")
        ELSE IF ~detected.ok THEN detected
        ELSE [result EXCEPT !.wrote = @ \cup OutputDirs(out)]

\* the body of the try statement of batch_convert for one input file
try_convert(input_file, out_dir, dir, state, point) ==
    LET detected_direction == IF dir # None THEN Return(dir[1])
                              ELSE detect_direction(input_file)
        ext == IF detected_direction.value = "to_latex" THEN ".tex"
               ELSE ".docx"
        output_path == Some(out_dir[1] \o "/" \o PathStem(input_file) \o ext)
    IN  IF out_dir = None
        THEN convert(input_file, None, dir, state, point)
        ELSE IF ~detected_direction.ok THEN detected_direction
        ELSE convert(input_file, output_path, dir, state, point)

\* the exception classes that derive from Exception
ExceptionClasses == {"ConversionError", "InvalidFileFormatError"}

\* a variant of the loop body's ending that leaves a failed input out of
\* the results
batch_results_skip_failed(res, outcome) ==
    IF outcome.ok THEN Append(res, Some(outcome.value)) ELSE res

\* results.append(result), or results.append(None) in the except clause
batch_results(res, outcome) ==
    IF outcome.ok THEN Append(res, Some(outcome.value))
    ELSE Append(res, None)

(***************************************************************************)
(* batch_convert as a state machine: one step per iteration of the loop    *)
(***************************************************************************)
\* the most input files of a batch
MaxFiles == 3

\* the kinds of input file: a suffix and the state of the file on disk
\* ("bad" is a file that exists and that the generator fails on)
FileKinds ==
    {k \in [suffix : {".docx", ".tex", ".LaTeX", ".txt"},
            state : {"ok", "missing", "bad"}] :
        \/ k.state = "ok"
        \/ k.state = "missing" /\ k.suffix = ".docx"
        \/ k.state = "bad" /\ k.suffix \in {".docx", ".tex"}}

\* the name of the input file at position i
FileName(i, suffix) == "f" \o NatStr(i) \o suffix

InitBatch ==
    /\ pc = "batch"
    /\ \E n \in 0..MaxFiles : \E kinds \in [1..n -> FileKinds] :
         /\ input_files = [i \in 1..n |-> FileName(i, kinds[i].suffix)]
         /\ disk = [i \in 1..n |-> kinds[i].state]
    /\ output_dir \in {None, Some("out")}
    /\ direction \in {None, Some("to_latex"), Some("to_docx"), Some("to_pdf")}
    /\ index = 1
    /\ results = <<>>
    /\ failed = {}
    /\ outputs = {}
    /\ temp_dirs = {}
    /\ IdleCodec /\ IdleLatex /\ IdleDocx /\ IdleParse /\ IdleCall

\* one iteration of the for loop: the try body and the except clause; an
\* exception that is no Exception leaves batch_convert
BatchIteration ==
    /\ pc = "batch"
    /\ index <= Len(input_files)
    /\ \E point \in (IF disk[index] = "bad" THEN FailurePoints
                      ELSE {"none"}) :
         LET outcome == try_convert(input_files[index], output_dir, direction,
                                    disk[index], point)
         IN  /\ outputs' = outputs \cup outcome.wrote
             /\ temp_dirs' = temp_dirs
                                 \cup (IF outcome.temp THEN {index} ELSE {})
             /\ failed' = failed \cup (IF outcome.ok THEN {} ELSE {index})
             /\ IF outcome.ok \/ outcome.error \in ExceptionClasses
                THEN /\ results' = batch_results(results, outcome)
                     /\ pc' = "batch"
                ELSE /\ results' = results
                     /\ pc' = "raised"
    /\ index' = index + 1
    /\ UNCHANGED <<codecVars, latexVars, docxVars, scanVars, parseVars,
                   input_files, output_dir, direction, disk, callVars>>

\* return results
BatchReturn ==
    /\ pc = "batch"
    /\ index > Len(input_files)
    /\ pc' = "returned"
    /\ UNCHANGED <<codecVars, latexVars, docxVars, scanVars, parseVars,
                   batchVars>>

NextBatch == BatchIteration \/ BatchReturn

SpecBatch == InitBatch /\ [][NextBatch]_vars

\* input i can be converted: the file is there and readable, and its
\* extension is the one of the direction asked for or detected
Convertible(i) ==
    LET ext == Lower(PathSuffix(input_files[i]))
    IN  /\ disk[i] = "ok"
        /\ \/ ext = ".docx" /\ direction \in {None, Some("to_latex")}
           \/ ext \in {".tex", ".latex"}
                  /\ direction \in {None, Some("to_docx")}

\* the output path of input i
ExpectedOutput(i) ==
    (IF output_dir = None THEN "" ELSE output_dir[1] \o "/")
        \o PathStem(input_files[i])
        \o (IF Lower(PathSuffix(input_files[i])) = ".docx" THEN ".tex"
            ELSE ".docx")

\* C10: batch_convert returns a list as long as input_files and in its
\* order; entry i is None exactly when converting input i failed and is the
\* output path otherwise; every input that can be converted is converted
\* whatever happened to the inputs before it (three inputs with an
\* unsupported extension second give [path, None, path]).
C10_BatchIsolation ==
    /\ pc # "raised"
    /\ pc = "returned" =>
           /\ Len(results) = Len(input_files)
           /\ \A i \in 1..Len(input_files) :
                  /\ results[i] = None <=> i \in failed
                  /\ Convertible(i) =>
                         /\ results[i] = Some(ExpectedOutput(i))
                         /\ ExpectedOutput(i) \in outputs
                  /\ ~Convertible(i) => results[i] = None

\* C10 witness: of three inputs the second, a .txt file, failed and the
\* third was still converted.
C10_Witness ==
    /\ pc = "returned"
    /\ input_files = <<"f1.docx", "f2.txt", "f3.tex">>
    /\ disk = <<"ok", "ok", "ok">>
    /\ direction = None /\ output_dir = None
    /\ failed = {2}
    /\ results = <<Some("f1.tex"), None, Some("f3.docx")>>

(***************************************************************************)
(* One call of the converter: _detect_direction or convert on one path     *)
(***************************************************************************)
\* the most fragments a file name is made of
MaxNameFrags == 2

\* the fragments of a file name
NameFragments == {"a", ".", ".docx", ".DOCX", ".tex", ".LaTeX", ".txt"}

\* the file names of at most n fragments
RECURSIVE FileNames(_)
FileNames(n) ==
    IF n = 0 THEN {""}
    ELSE FileNames(n - 1)
             \cup {name \o f : name \in FileNames(n - 1), f \in NameFragments}

InitCall ==
    /\ pc = "call"
    /\ in_path \in FileNames(MaxNameFrags) \ {""}
    /\ out_path \in {None, Some("out/o")}
    /\ direction \in {None, Some("to_latex"), Some("to_docx"), Some("to_pdf")}
    /\ file_state \in {"ok", "missing", "bad"}
    /\ fault \in (IF file_state = "bad" THEN FailurePoints ELSE {"none"})
    /\ call_result = <<>>
    /\ input_files = <<>> /\ output_dir = <<>> /\ index = 1
    /\ results = <<>> /\ failed = {} /\ disk = <<>>
    /\ outputs = {} /\ temp_dirs = {}
    /\ IdleCodec /\ IdleLatex /\ IdleDocx /\ IdleParse

\* converter._detect_direction(in_path)
DetectDirection ==
    /\ pc = "call"
    /\ call_result' = detect_direction(in_path)
    /\ pc' = "detected"
    /\ UNCHANGED <<codecVars, latexVars, docxVars, scanVars, parseVars,
                   input_files, output_dir, direction, index, results, failed,
                   disk, outputs, temp_dirs, in_path, out_path, file_state,
                   fault>>

\* converter.convert(in_path, out_path, direction)
Convert ==
    /\ pc = "call"
    /\ LET result == convert(in_path, out_path, direction, file_state, fault)
       IN  /\ call_result' = result
           /\ outputs' = outputs \cup result.wrote
           /\ temp_dirs' = temp_dirs
                               \cup (IF result.temp THEN {in_path} ELSE {})
    /\ pc' = "converted"
    /\ UNCHANGED <<codecVars, latexVars, docxVars, scanVars, parseVars,
                   input_files, output_dir, direction, index, results, failed,
                   disk, in_path, out_path, file_state, fault>>

NextCall == DetectDirection \/ Convert

SpecCall == InitCall /\ [][NextCall]_vars

\* name ends with the suffix, letter case apart, and has a stem before it
EndsWithNoCase(name, suffix) ==
    /\ Len(name) > Len(suffix)
    /\ Lower(SubSeq(name, Len(name) - Len(suffix) + 1, Len(name))) = suffix

\* C11: _detect_direction returns to_latex for a name whose extension is
\* docx in any letter case, to_docx for an extension of tex or latex, and
\* raises the invalid-format error for every other name.
C11_DetectByExtension ==
    pc = "detected" =>
        IF EndsWithNoCase(in_path, ".docx")
        THEN call_result.ok /\ call_result.value = "to_latex"
        ELSE IF EndsWithNoCase(in_path, ".tex")
                    \/ EndsWithNoCase(in_path, ".latex")
        THEN call_result.ok /\ call_result.value = "to_docx"
        ELSE ~call_result.ok /\ call_result.error = "InvalidFileFormatError"

\* C11 witness: an upper-case DOCX extension was detected as to_latex.
C11_Witness ==
    /\ pc = "detected"
    /\ in_path = "a.DOCX"
    /\ call_result.ok /\ call_result.value = "to_latex"

\* C12: convert with an explicit direction to_latex or to_docx on an
\* existing file of any extension is never rejected with the invalid-format
\* error and calls the generator of that direction.
C12_ExplicitDirectionBypasses ==
    (/\ pc = "converted"
     /\ file_state # "missing"
     /\ direction \in {Some("to_latex"), Some("to_docx")})
        => /\ call_result.error # "InvalidFileFormatError"
           /\ call_result.generator
                  = (IF direction = Some("to_latex") THEN "LatexGenerator"
                     ELSE "DocxGenerator")

\* C21: with clean_temp_files enabled, no temp directory that a to-LaTeX
\* conversion created is left once convert has returned or raised, on the
\* success path and on every failure path.
C21_TempDirsRemoved ==
    (pc = "converted" /\ clean_temp_files) => temp_dirs = {}

(***************************************************************************)
(* DocxGenerator.convert on the markup read from the input file: parse,    *)
(* process every block, then save the document                             *)
(***************************************************************************)
\* the most fragments the markup of a document is made of
MaxDocFrags == 3

\* a figure block, a blank line, and paragraph text
DocFragments ==
    {"\\begin{figure}\\includegraphics{i.png}\\end{figure}",
     "\\begin{figure}\\includegraphics[width=1cm]{j.png}",
     "\n\n", "text ", "\\textbf{b}"}

InitDocx ==
    /\ pc = "content"
    /\ content \in Concats(DocFragments, MaxDocFrags)
    /\ body = ""
    /\ blocks = <<>>
    /\ out_path = Some("a.docx")
    /\ outputs = {}
    /\ in_path = "a.tex" /\ file_state = "ok" /\ fault = "none"
    /\ call_result = <<>>
    /\ input_files = <<>> /\ output_dir = <<>> /\ direction = <<>>
    /\ index = 1 /\ results = <<>> /\ failed = {} /\ disk = <<>>
    /\ temp_dirs = {}
    /\ IdleCodec /\ IdleLatex /\ IdleDocx

\* self.doc.save(output_path); return output_path
Save ==
    /\ pc \in {"parsed", "built"}
    /\ blocks = <<>>
    /\ outputs' = outputs \cup {out_path[1]}
    /\ call_result' = [Return(out_path[1]) EXCEPT
                           !.wrote = {out_path[1]},
                           !.generator = "DocxGenerator"]
    /\ pc' = "saved"
    /\ UNCHANGED <<codecVars, latexVars, docxVars, scanVars, parseVars,
                   input_files, output_dir, direction, index, results, failed,
                   disk, temp_dirs, in_path, out_path, file_state, fault>>

NextDocx == ParseLatex \/ TakeBlock \/ ProcessBlock \/ ScanStep \/ Save

SpecDocx == InitDocx /\ [][NextDocx]_vars

\* add_picture raised while a figure block was built: the document holds
\* the paragraph the except clause of _process_figure adds
FailureCaught ==
    \E i \in 1..Len(doc) :
        /\ doc[i].kind = "paragraph"
        /\ doc[i].runs # <<>>
        /\ StartsWith(doc[i].runs[1].text,
                      "[Image file found but could not be added: ")

\* C13: a failure raised while a block is built aborts the conversion of the
\* document: after it nothing more is built from the document and no output
\* file is written.
C13_FailureAborts ==
    FailureCaught => pc \notin {"block", "scan", "saved"} /\ outputs = {}

(***************************************************************************)
(* LatexGenerator._process_paragraph on body paragraphs: runs with flags   *)
(* and links, list styles, alignment                                       *)
(***************************************************************************)
\* the most runs of an input paragraph
MaxRuns == 1

RunTexts == {"x", "a_b 5%"}

\* the runs of Word: a text, the three flags, and a hyperlink address
\* ("" when the run has no hyperlink)
WordRuns ==
    [text : RunTexts, bold : BOOLEAN, italic : BOOLEAN, underline : BOOLEAN,
     url : {"", "u"}]

\* the styles of body paragraphs: plain text and Word's two list styles
BodyStyles == {"Normal", "List Bullet", "List Number"}

InitRuns ==
    /\ pc = "paragraph"
    /\ table = <<>>
    /\ paragraph \in
           [style_name : BodyStyles,
            runs : UNION {[1..n -> WordRuns] : n \in 1..MaxRuns},
            alignment : {"left", "center"}]
    /\ IdleCodec /\ IdleDocx /\ IdleParse /\ IdleBatch

SpecRuns == InitRuns /\ [][GenerateParagraph]_vars

\* t inside the command cmd when the flag is set, t itself otherwise
Wrapped(cmd, flag, t) == IF flag THEN "\\" \o cmd \o "{" \o t \o "}" ELSE t

\* C14: a run with a link target is emitted as the link command around the
\* escaped plain text of the run, whatever its flags are.
C14_LinkDiscardsFlags ==
    (/\ pc = "block"
     /\ paragraph.style_name = "Normal" /\ paragraph.alignment = "left"
     /\ Len(paragraph.runs) = 1
     /\ paragraph.runs[1].url # "")
        => block = "\\href{" \o paragraph.runs[1].url \o "}{"
                       \o escape_latex(paragraph.runs[1].text) \o "}"

\* the item command with the escaped text of a list paragraph
ItemMarkup == "\\item " \o escape_latex(RunsText(paragraph.runs))

\* C15: a list paragraph is emitted inside an enumerate environment when it
\* is numbered and inside an itemize environment when it is bulleted, as an
\* item command with the escaped item text.
C15_ListEnvironment ==
    (pc = "block" /\ paragraph.style_name \in {"List Bullet", "List Number"})
        => LET env == IF paragraph.style_name = "List Number"
                      THEN "enumerate" ELSE "itemize"
               open == Find(block, "\\begin{" \o env \o "}", 1)
               item == Find(block, ItemMarkup, 1)
               close == Find(block, "\\end{" \o env \o "}", 1)
           IN  0 < open /\ open < item /\ item < close

\* what C18 says one run without a link is emitted as
RECURSIVE NestedRuns(_)
NestedRuns(runs) ==
    IF runs = <<>> THEN ""
    ELSE Wrapped("underline", Head(runs).underline,
             Wrapped("textit", Head(runs).italic,
                 Wrapped("textbf", Head(runs).bold,
                     escape_latex(Head(runs).text))))
             \o NestedRuns(Tail(runs))

\* C18: every run without a link is emitted as its escaped text wrapped in
\* the commands of exactly its set flags, bold innermost, then italic, then
\* underline outermost, and unwrapped when no flag is set.
C18_FlagNesting ==
    (/\ pc = "block"
     /\ paragraph.style_name = "Normal" /\ paragraph.alignment = "left"
     /\ \A k \in 1..Len(paragraph.runs) : paragraph.runs[k].url = "")
        => block = NestedRuns(paragraph.runs)

\* C18 witness: a run with all three flags came out with bold innermost and
\* underline outermost.
C18_Witness ==
    /\ pc = "block"
    /\ paragraph = [style_name |-> "Normal",
                    runs |-> <<WordRun("a_b 5%", TRUE, TRUE, TRUE)>>,
                    alignment |-> "left"]
    /\ block = "\\underline{\\textit{\\textbf{a\\_b 5\\%}}}"

(***************************************************************************)
(* Environment blocks: _process_block on list blocks whose items hold      *)
(* escape sequences and commands, and on table blocks whose rows start     *)
(* with a command or follow a rule line                                    *)
(***************************************************************************)
\* the most fragments the body of a list is made of
MaxItemFrags == 4

ItemFragments == {"\\item ", "one", "\n", "a\\&b", "\\textbf{x}"}

\* an itemize or enumerate block around a body
ListMarkup(env, list_body) ==
    "\\begin{" \o env \o "}\n" \o list_body \o "\n\\end{" \o env \o "}"

ListInputs ==
    {ListMarkup(env, b) : env \in {"itemize", "enumerate"},
                          b \in Concats(ItemFragments, MaxItemFrags)}

\* the most rows of a table input
MaxLeadRows == 2

\* row texts: plain cells, a first cell that starts with a formatting
\* command or an escape sequence, and a row after a rule line
LeadRows == {"a & b", "\\textbf{N} & b", "\\$5 & d", "\\midrule\nc & d"}

RECURSIVE RowLines(_)
RowLines(rows) ==
    IF rows = <<>> THEN ""
    ELSE Head(rows) \o " \\\\\n" \o RowLines(Tail(rows))

LeadTableInputs ==
    {"\\begin{table}[h]\n\\begin{tabular}{l|l}\n" \o RowLines(rows)
         \o "\\end{tabular}\n\\end{table}" :
        rows \in UNION {[1..n -> LeadRows] : n \in 1..MaxLeadRows}}

InitEnv ==
    /\ pc = "block"
    /\ block \in ListInputs \cup LeadTableInputs
    /\ calls = <<>>
    /\ doc = <<>>
    /\ pos = 0
    /\ next_match = NoMatch
    /\ IdleCodec /\ IdleLatex /\ IdleParse /\ IdleBatch

SpecEnv == InitEnv /\ [][ProcessBlock]_vars

\* the rule-drawing commands
RuleCommands == {"\\toprule", "\\midrule", "\\bottomrule", "\\hline"}

\* a segment without the rule commands and the white space it starts with
RECURSIVE CellData(_)
CellData(seg) ==
    LET t == Strip(seg)
    IN  IF \E r \in RuleCommands : StartsWith(t, r)
        THEN CellData(Tail_(t, 1 + Len(CHOOSE r \in RuleCommands :
                                           StartsWith(t, r))))
        ELSE t

\* the cell data of the segments that hold any, in order
RECURSIVE DataRows(_)
DataRows(segs) ==
    IF segs = <<>> THEN <<>>
    ELSE (IF CellData(Head(segs)) # "" THEN <<CellData(Head(segs))>>
          ELSE <<>>) \o DataRows(Tail(segs))

\* C16: the table holds one row for every segment between row terminators
\* that contains cell data, in order, each starting with the first cell of
\* its segment; only the segments that are pure rule commands give no row.
C16_DropsOnlyRuleRows ==
    LET tabular == SearchTabular(block, 1)
        data == DataRows(Split(tabular.g1, "\\\\"))
    IN  (pc = "built" /\ calls = <<"table">> /\ tabular.found
             /\ data # <<>>) =>
            /\ Len(doc) = 1
            /\ doc[1].kind = "table"
            /\ Len(doc[1].rows) = Len(data)
            /\ \A i \in 1..Len(data) :
                   doc[1].rows[i][1]
                       = [written |-> TRUE, text |-> RowCells(data[i])[1]]

\* the item texts as C17 states them: after each item marker, the text up
\* to the next line break or the next item marker
RECURSIVE MarkedItems(_, _)
MarkedItems(s, i) ==
    LET b == Find(s, "\\item", i)
        start == b + Len("\\item")
        stops == {Find(s, "\n", start), Find(s, "\\item", start)} \ {0}
        stop == IF stops = {} THEN Len(s) + 1 ELSE Min(stops)
        item == Strip(SubSeq(s, start, stop - 1))
    IN  IF b = 0 THEN <<>>
        ELSE (IF item # "" THEN <<item>> ELSE <<>>)
                 \o MarkedItems(s, start)

\* C17: a list block gives one list item per item marker with text, in
\* order, numbered exactly when the enumerate marker is in the block, each
\* with the whole (unescaped) text between its marker and the next line
\* break or item marker, backslashes inside it included.
C17_ListItems ==
    (pc = "built" /\ calls = <<"list">>) =>
        LET items == MarkedItems(block, 1)
            style == IF Contains(block, "\\begin{enumerate}")
                     THEN "List Number" ELSE "List Bullet"
        IN  doc = [k \in 1..Len(items) |->
                      [kind |-> "list_item", style |-> style,
                       text |-> unescape_latex(items[k])]]

(***************************************************************************)
(* The inline scan on nested and unbalanced markup, run to its end: the    *)
(* while loop of _parse_inline_formatting is not interrupted (the          *)
(* generators are single-threaded and synchronous)                         *)
(***************************************************************************)
\* the most fragments a nested inline input is made of
MaxNestFrags == 4

NestFragments == {"\\textbf{", "\\textit{x}", "}", " y", "\\href{u}{"}

InitScan ==
    /\ pc = "block"
    /\ block \in {b \in Concats(NestFragments, MaxNestFrags) : IsBlock(b)}
    /\ calls = <<>>
    /\ doc = <<>>
    /\ pos = 0
    /\ next_match = NoMatch
    /\ IdleCodec /\ IdleLatex /\ IdleParse /\ IdleBatch

\* a step of the generator while it works on the block: _process_block and
\* every iteration of the loop move pc or pos
Advance ==
    /\ pc \in {"block", "scan"}
    /\ pc' \in {"scan", "built"}
    /\ pos' \in 0..Len(block)

\* the generator is not suspended while it works on a block
SpecScan == InitScan /\ [][NextBlock]_vars /\ WF_<<pc, pos>>(Advance)

\* the runs of a scan that never looks inside a span it has matched: the
\* text before the leftmost match, one run with the literal text of the
\* span, then the same on the text after the end of the match
RECURSIVE FlatRuns(_)
FlatRuns(rem) ==
    IF rem = "" THEN <<>>
    ELSE IF MatchesIn(rem) = {} THEN RunIf(unescape_latex(rem))
    ELSE LET at == Leftmost(rem)
             m == MatchAt(patterns[at[2]], rem, at[1])
         IN  RunIf(unescape_latex(SubSeq(rem, 1, at[1] - 1)))
                 \o <<FormattedRun(at[2], m)>>
                 \o FlatRuns(Tail_(rem, m.end + 1))

NestedExample == "\\textbf{\\textit{x}}"

\* C19: the scan is not recursive.  The runs of a paragraph are those of
\* the flat scan, in which the text of a matched span gives no run of its
\* own and scanning goes on from the end of the match; \textbf{\textit{x}}
\* gives one bold run with the literal text \textit{x (up to the first
\* closing brace), no italic run, and the plain rest.
C19_NonRecursive ==
    (pc = "built" /\ calls = <<"paragraph">>) =>
        /\ doc = <<[kind |-> "paragraph", runs |-> FlatRuns(block)]>>
        /\ block = NestedExample =>
               /\ doc[1].runs[1] = [text |-> "\\textit{x", bold |-> TRUE,
                                    italic |-> FALSE, underline |-> FALSE]
               /\ \A k \in 2..Len(doc[1].runs) :
                      /\ ~doc[1].runs[k].bold
                      /\ ~doc[1].runs[k].italic
                      /\ ~doc[1].runs[k].underline

\* C19 witness: the nested example was scanned; its bold run holds the
\* inner markup and the closing brace left over is the only other run.
C19_Witness ==
    /\ pc = "built"
    /\ block = NestedExample
    /\ doc = <<[kind |-> "paragraph",
                runs |-> <<[text |-> "\\textit{x", bold |-> TRUE,
                            italic |-> FALSE, underline |-> FALSE],
                           PlainRun("}")>>]>>

\* one iteration of the loop: without a match it ends the scan with the
\* remainder as one plain run; with a match the position grows by the end
\* of the match, which is at least the length of the match and at least 1,
\* and stays within the text
ScanProgress ==
    pc = "scan" =>
        LET added == SubSeq(doc'[Len(doc')].runs,
                            Len(doc[Len(doc)].runs) + 1,
                            Len(doc'[Len(doc')].runs))
        IN  IF next_match'.found
            THEN /\ next_match'.end - next_match'.start >= 1
                 /\ pos' = pos + next_match'.end
                 /\ pos' - pos >= next_match'.end - next_match'.start
                 /\ pos' > pos
                 /\ pos' <= Len(block)
            ELSE /\ pc' = "built"
                 /\ pos' = pos
                 /\ Len(added) = 1
                 /\ added[1].text # ""
                 /\ added[1] = PlainRun(added[1].text)

\* no run of a paragraph has empty text
NoEmptyRun ==
    \A i \in 1..Len(doc) :
        doc[i].kind = "paragraph" =>
            \A k \in 1..Len(doc[i].runs) : doc[i].runs[k].text # ""

\* the loop condition holds whenever the scan is at the head of the loop,
\* so an iteration can always be taken there
LoopCanStep == pc = "scan" => pos < Len(block)

\* C20: the inline scan terminates.  Every iteration either finds no match
\* and ends the loop after adding the remainder as one plain run, or moves
\* the position strictly forward past a non-empty match without passing the
\* end of the text; no run added has empty text; and every scan reaches its
\* end.
C20_ScanTerminates ==
    /\ [][ScanProgress]_vars
    /\ [](NoEmptyRun /\ LoopCanStep)
    /\ <>(pc = "built")

\* C20 witness: a scan of three iterations (two matches, then the rest)
\* has ended.
C20_Witness ==
    /\ pc = "built"
    /\ block = "\\textbf{\\textit{x}\\textit{x} y"
    /\ ~next_match.found
    /\ pos = Len("\\textbf{\\textit{x}\\textit{x}")
    /\ Len(doc[1].runs) = 3

(***************************************************************************)
(* Table round trip: the LaTeX generator emits a Word table, the DOCX      *)
(* generator processes the markup as one block.                            *)
(***************************************************************************)
\* the most rows and the most columns of a Word table
MaxWordRows == 3
MaxWordCols == 2

\* cell texts: plain text, one of them with a character the codec escapes
WordCellTexts == {"a", "5%"}

\* the Word tables: every row has the same number of cells; a table
\* without rows is the input of _process_table's early return
WordTables ==
    UNION {[1..n -> [1..m -> WordCellTexts]] :
               n \in 0..MaxWordRows, m \in 1..MaxWordCols}

InitTable ==
    /\ pc = "table"
    /\ table \in WordTables
    /\ paragraph = [style_name |-> "", runs |-> <<>>, alignment |-> "left"]
    /\ IdleCodec /\ IdleDocx /\ IdleParse /\ IdleBatch

\* LatexGenerator._process_table; an empty result is no block
GenerateTable ==
    /\ pc = "table"
    /\ block' = latex_process_table(table)
    /\ pc' = IF block' = "" THEN "built" ELSE "block"
    /\ UNCHANGED <<codecVars, latexVars, calls, doc, scanVars, parseVars,
                   batchVars>>

NextTable == GenerateTable \/ ProcessBlock

SpecTable == InitTable /\ [][NextTable]_vars

\* C22: a Word table with at least one row of plain-text cells, emitted by
\* the LaTeX generator and parsed back by the DOCX generator, gives one
\* table with as many rows and with the same cell texts in the same order.
C22_TableRoundTrip ==
    (pc = "built" /\ Len(table) >= 1) =>
        /\ Len(doc) = 1
        /\ doc[1].kind = "table"
        /\ Len(doc[1].rows) = Len(table)
        /\ \A i \in 1..Len(table) :
               /\ Len(doc[1].rows[i]) = Len(table[i])
               /\ \A j \in 1..Len(table[i]) :
                      doc[1].rows[i][j].text = table[i][j]

=============================================================================
